---------------------------- MODULE Spec2Model ----------------------------
(***************************************************************************)
(* A model of the resume-to-portfolio service:                             *)
(*   - the extraction pipeline of src/src/resumeportfolioagent.py          *)
(*     (ResumePortfolioAgent: a three-node LangGraph workflow driven by    *)
(*     process_resume), with the text and link extractors it calls;        *)
(*   - the archive merger of src/src/portfolio_generator.py                *)
(*     (PortfolioGenerator.generate_zip and its helpers).                  *)
(*                                                                         *)
(* Conventions.  Optional[T] is a sequence of length at most one: None is  *)
(* <<>> and a present value x is <<x>>.  A Python string is a sequence of  *)
(* one-character strings; a message built with an f-string is a sequence   *)
(* of its pieces.                                                          *)
(***************************************************************************)
EXTENDS Naturals, Sequences, FiniteSets

(***************************************************************************)
(* Bounds of the model.                                                    *)
(***************************************************************************)
MaxPages == 2

MaxEntries == 2

None == <<>>

Some(x) == <<x>>

\* Python truthiness of an Optional[list] / Optional[str] / Optional[model]:
\* None is falsy, an empty list or string is falsy, a pydantic model is truthy.
TruthySeq(opt) == opt # None /\ opt[1] # <<>>

TruthyObj(opt) == opt # None

(***************************************************************************)
(* Documents.  A document is what the two PDF libraries see in the bytes:  *)
(* whether the bytes are non-empty, whether each library can open them,    *)
(* and the pages (text characters and link annotations, an annotation      *)
(* being Optional[uri]).                                                   *)
(***************************************************************************)
Whitespace == {" ", "\n"}

PageTexts == { <<>>, <<" ">>, <<"t">> }

PageAnnots == { <<>>, <<Some("u1")>>, <<None>>, <<Some("u2"), Some("u1")>> }

Pages == [text : PageTexts, annots : PageAnnots]

PageSeqs == UNION { [1..n -> Pages] : n \in 0..MaxPages }

Documents ==
    { d \in [nonempty : BOOLEAN, pypdf_ok : BOOLEAN, fitz_ok : BOOLEAN, pages : PageSeqs] :
        \* empty bytes are no document for either library
        d.nonempty = FALSE => (d.pypdf_ok = FALSE /\ d.fitz_ok = FALSE /\ d.pages = <<>>) }

RECURSIVE LStrip(_)
LStrip(s) == IF s # <<>> /\ Head(s) \in Whitespace THEN LStrip(Tail(s)) ELSE s

RECURSIVE RStrip(_)
RStrip(s) ==
    IF s # <<>> /\ s[Len(s)] \in Whitespace THEN RStrip(SubSeq(s, 1, Len(s) - 1)) ELSE s

Strip(s) == LStrip(RStrip(s))

RECURSIVE ConcatPages(_)
ConcatPages(pages) ==
    IF pages = <<>> THEN <<>>
    ELSE Head(pages).text \o <<"\n">> \o ConcatPages(Tail(pages))

\* PDFExtractor.extract_with_pypdf2: any exception yields "".
extract_with_pypdf2(d) == IF d.pypdf_ok THEN Strip(ConcatPages(d.pages)) ELSE <<>>

extract_text(d) == extract_with_pypdf2(d)

RECURSIVE AnnotUris(_)
AnnotUris(annots) ==
    IF annots = <<>> THEN <<>>
    ELSE (IF Head(annots) # None THEN <<Head(annots)[1]>> ELSE <<>>) \o AnnotUris(Tail(annots))

RECURSIVE PageLinks(_)
PageLinks(pages) ==
    IF pages = <<>> THEN <<>> ELSE AnnotUris(Head(pages).annots) \o PageLinks(Tail(pages))

\* extract_links_from_pdf: a failure to open is logged and the (empty) list returned.
extract_links_from_pdf(d) == IF d.fitz_ok THEN PageLinks(d.pages) ELSE <<>>

(***************************************************************************)
(* The structured-extraction model.  A Portfolio is its required fields    *)
(* (one token) and the optional pdfLinks.  One invocation either raises    *)
(* or returns Optional[Portfolio].                                         *)
(***************************************************************************)
ModelLinkLists == { None, Some(<<>>), Some(<<"m1">>), Some(<<"u1">>) }

Portfolios == [fields : {"jane"}, pdfLinks : ModelLinkLists]

LlmAnswers ==
    { [raises |-> TRUE, msg |-> <<"quota">>, value |-> None] }
    \cup { [raises |-> FALSE, msg |-> <<>>, value |-> v] :
             v \in {None} \cup { Some(p) : p \in Portfolios } }

(***************************************************************************)
(* State of one pipeline invocation.                                       *)
(***************************************************************************)
VARIABLES
    doc,        \* the uploaded document (pdf_bytes)
    entry,      \* "process_resume" or "graph" (self.graph invoked directly)
    pc,         \* "call", "graph", "done"
    node,       \* the graph node to run next: a node name, or "END"
    state,      \* the AgentState passed along the graph
    ran,        \* the nodes run so far, in order
    statusLog,  \* the values status has taken, in order
    errorLog,   \* the error messages set by the nodes, in order
    linkCalls,  \* the link lists returned by extract_links_from_pdf calls
    llmLog,     \* for each model invocation, the answer and pdf_links at that time
    outcome     \* what process_resume gave its caller

pvars == <<doc, entry, pc, node, state, ran, statusLog, errorLog, linkCalls, llmLog, outcome>>

(***************************************************************************)
(* State of one generate_zip invocation.                                   *)
(***************************************************************************)
VARIABLES
    remote,         \* how the template download is answered
    template,       \* the entries of the downloaded template archive, in order
    portfolio_data, \* the Portfolio given to generate_zip
    zpc,            \* "call", "fetched", "copying", "done"
    item,           \* index of the next template entry of the copy loop
    root_dir,       \* Optional[str]: the detected root directory
    output_zip,     \* the entries written to the output archive, in order
    files_copied,   \* the copy loop's counter
    skipped,        \* the file names skipped because reading them failed
    testzip_result, \* what template_zip.testzip() returned (unused by the code)
    zoutcome        \* what generate_zip gave its caller

zvars == <<remote, template, portfolio_data, zpc, item, root_dir, output_zip,
           files_copied, skipped, testzip_result, zoutcome>>

vars == <<pvars, zvars>>

NoZipOutcome == [kind |-> "none", exc_type |-> "none", archive |-> <<>>, detail |-> <<>>]

\* No generate_zip invocation is under way.
ZipIdle ==
    /\ remote = [exc |-> "none", status |-> "200", content_type |-> "application/zip",
                 is_zip |-> TRUE]
    /\ template = <<>>
    /\ portfolio_data = [fields |-> "jane", pdfLinks |-> None]
    /\ zpc = "idle"
    /\ item = 0
    /\ root_dir = None
    /\ output_zip = <<>>
    /\ files_copied = 0
    /\ skipped = <<>>
    /\ testzip_result = None
    /\ zoutcome = NoZipOutcome

NoState ==
    [pdf_content |-> <<>>, pdf_bytes |-> None, extracted_data |-> None,
     pdf_links |-> None, error |-> None, status |-> "none"]

NoOutcome == [kind |-> "none", value |-> None, detail |-> <<>>]

Returned(p) == [kind |-> "returned", value |-> Some(p), detail |-> <<>>]

\* raise HTTPException(status_code=500, detail=f"Resume processing failed: {str(e)}")
HTTPException(e) == [kind |-> "raised", value |-> None, detail |-> <<"Resume processing failed: ">> \o e]

PipelineInit ==
    /\ doc \in Documents
    /\ entry \in {"process_resume", "graph"}
    /\ pc = "call"
    /\ node = "none"
    /\ state = NoState
    /\ ran = <<>>
    /\ statusLog = <<>>
    /\ errorLog = <<>>
    /\ linkCalls = <<>>
    /\ llmLog = <<>>
    /\ outcome = NoOutcome
    /\ ZipIdle

\* Mutant of EntryPoint: the workflow entered at the model stage.
EntryPointAtLlm == "process_with_llm"

\* _create_graph: entry point and the three unconditional edges.
EntryPoint == "extract_pdf"

NextNode(n) ==
    CASE n = "extract_pdf" -> "process_with_llm"
      [] n = "process_with_llm" -> "validate_output"
      [] n = "validate_output" -> "END"

\* Mutant of ProcessResumeCall: the emptiness check on the extracted text dropped.
ProcessResumeCallNoEmptyCheck ==
    /\ pc = "call"
    /\ entry = "process_resume"
    /\ state' = [pdf_content |-> extract_text(doc), pdf_bytes |-> Some(doc),
                 extracted_data |-> None, pdf_links |-> None,
                 error |-> None, status |-> "initialized"]
    /\ statusLog' = <<"initialized">>
    /\ node' = EntryPoint
    /\ pc' = "graph"
    /\ UNCHANGED <<doc, entry, ran, errorLog, linkCalls, llmLog, outcome>>
    /\ UNCHANGED zvars

\* process_resume up to graph.invoke: text extraction, the emptiness check and
\* the initial state.
ProcessResumeCall ==
    /\ pc = "call"
    /\ entry = "process_resume"
    /\ LET pdf_text == extract_text(doc) IN
         IF pdf_text = <<>>
         THEN /\ outcome' = HTTPException(<<"Could not extract text from PDF">>)
              /\ pc' = "done"
              /\ UNCHANGED <<node, state, statusLog>>
         ELSE /\ state' = [pdf_content |-> pdf_text, pdf_bytes |-> Some(doc),
                           extracted_data |-> None, pdf_links |-> None,
                           error |-> None, status |-> "initialized"]
              /\ statusLog' = <<"initialized">>
              /\ node' = EntryPoint
              /\ pc' = "graph"
              /\ UNCHANGED outcome
    /\ UNCHANGED <<doc, entry, ran, errorLog, linkCalls, llmLog>>
    /\ UNCHANGED zvars

\* self.graph.invoke(initial_state) by a caller other than process_resume: the
\* caller chooses pdf_content and pdf_bytes.
GraphInvoke ==
    /\ pc = "call"
    /\ entry = "graph"
    /\ \E content \in {<<>>, extract_text(doc)}, bytes \in {None, Some(doc)},
          links \in {None, Some(<<>>)} :
         state' = [pdf_content |-> content, pdf_bytes |-> bytes,
                   extracted_data |-> None, pdf_links |-> links,
                   error |-> None, status |-> "initialized"]
    /\ statusLog' = <<"initialized">>
    /\ node' = EntryPoint
    /\ pc' = "graph"
    /\ UNCHANGED <<doc, entry, ran, errorLog, linkCalls, llmLog, outcome>>
    /\ UNCHANGED zvars

\* A node's returned dict replaces the state; the graph moves along its edge.
Advance(n, newState) ==
    /\ state' = newState
    /\ statusLog' = Append(statusLog, newState.status)
    /\ errorLog' = IF newState.status = "error"
                   THEN Append(errorLog, newState.error[1]) ELSE errorLog
    /\ ran' = Append(ran, n)
    /\ node' = NextNode(n)

\* _extract_pdf_node
ExtractPdfResult(s) ==
    IF s.pdf_content = <<>>
    THEN [s EXCEPT !.status = "error", !.error = Some(<<"No PDF content provided">>)]
    ELSE [s EXCEPT !.status = "pdf_extracted",
                   !.pdf_links = Some(IF s.pdf_bytes # None /\ s.pdf_bytes[1].nonempty
                                      THEN extract_links_from_pdf(s.pdf_bytes[1])
                                      ELSE <<>>)]

ExtractPdfNode ==
    /\ pc = "graph"
    /\ node = "extract_pdf"
    /\ Advance("extract_pdf", ExtractPdfResult(state))
    /\ linkCalls' = IF state.pdf_content # <<>> /\ state.pdf_bytes # None
                       /\ state.pdf_bytes[1].nonempty
                    THEN Append(linkCalls, extract_links_from_pdf(state.pdf_bytes[1]))
                    ELSE linkCalls
    /\ UNCHANGED <<doc, entry, pc, llmLog, outcome>>
    /\ UNCHANGED zvars

\* _process_with_llm_node, for the answer the model gives to this invocation
LlmResult(s, answer) ==
    IF answer.raises
    THEN [s EXCEPT !.status = "error", !.error = Some(<<"LLM processing failed: ">> \o answer.msg)]
    ELSE [s EXCEPT !.status = "llm_processed", !.extracted_data = answer.value]

\* "\n".join(None) raises TypeError inside the node's try, before the model is invoked
JoinTypeError == [raises |-> TRUE, msg |-> <<"can only join an iterable">>, value |-> None]

ProcessWithLlmNode ==
    /\ pc = "graph"
    /\ node = "process_with_llm"
    /\ IF state.pdf_links = None
       THEN /\ Advance("process_with_llm", LlmResult(state, JoinTypeError))
            /\ UNCHANGED llmLog
       ELSE \E answer \in LlmAnswers :
               /\ Advance("process_with_llm", LlmResult(state, answer))
               /\ llmLog' = Append(llmLog, [answer |-> answer, pdf_links |-> state.pdf_links])
    /\ UNCHANGED <<doc, entry, pc, linkCalls, outcome>>
    /\ UNCHANGED zvars

\* Mutant of ValidateResult: the extracted links are never merged into the result.
ValidateResultNoMerge(s) ==
    IF ~TruthyObj(s.extracted_data)
    THEN [s EXCEPT !.status = "error", !.error = Some(<<"No data extracted">>)]
    ELSE [s EXCEPT !.status = "completed"]

\* Mutant of ValidateResult: pdfLinks overwritten whenever a link list was stored,
\* an empty one included.
ValidateResultAlwaysMerge(s) ==
    IF ~TruthyObj(s.extracted_data)
    THEN [s EXCEPT !.status = "error", !.error = Some(<<"No data extracted">>)]
    ELSE [s EXCEPT !.status = "completed",
                   !.extracted_data =
                       IF s.pdf_links # None
                       THEN Some([s.extracted_data[1] EXCEPT !.pdfLinks = s.pdf_links])
                       ELSE s.extracted_data]

\* _validate_output_node
ValidateResult(s) ==
    IF ~TruthyObj(s.extracted_data)
    THEN [s EXCEPT !.status = "error", !.error = Some(<<"No data extracted">>)]
    ELSE [s EXCEPT !.status = "completed",
                   !.extracted_data =
                       IF TruthySeq(s.pdf_links)
                       THEN Some([s.extracted_data[1] EXCEPT !.pdfLinks = s.pdf_links])
                       ELSE s.extracted_data]

ValidateOutputNode ==
    /\ pc = "graph"
    /\ node = "validate_output"
    /\ Advance("validate_output", ValidateResult(state))
    /\ UNCHANGED <<doc, entry, pc, linkCalls, llmLog, outcome>>
    /\ UNCHANGED zvars

\* Mutant of ProcessResumeOutcome: final_state's data handed back without the
\* status and null checks.
ProcessResumeOutcomeUnchecked(final_state) ==
    [kind |-> "returned", value |-> final_state.extracted_data, detail |-> <<>>]

\* process_resume after graph.invoke returned final_state. The state always has
\* the key "error", so final_state.get("error", "Unknown error") is the stored
\* value, and a stored None is raised as ValueError(None), whose text is "None".
ProcessResumeOutcome(final_state) ==
    IF final_state.status = "error"
    THEN HTTPException(IF final_state.error # None THEN final_state.error[1]
                       ELSE <<"None">>)
    ELSE IF ~TruthyObj(final_state.extracted_data)
    THEN HTTPException(<<"No data was extracted from the resume">>)
    ELSE Returned(final_state.extracted_data[1])

ProcessResumeReturn ==
    /\ pc = "graph"
    /\ node = "END"
    /\ entry = "process_resume"
    /\ outcome' = ProcessResumeOutcome(state)
    /\ pc' = "done"
    /\ UNCHANGED <<doc, entry, node, state, ran, statusLog, errorLog, linkCalls, llmLog>>
    /\ UNCHANGED zvars

\* graph.invoke returns final_state to its direct caller
GraphReturn ==
    /\ pc = "graph"
    /\ node = "END"
    /\ entry = "graph"
    /\ pc' = "done"
    /\ UNCHANGED <<doc, entry, node, state, ran, statusLog, errorLog, linkCalls, llmLog, outcome>>
    /\ UNCHANGED zvars

PipelineNext ==
    \/ ProcessResumeCall
    \/ GraphInvoke
    \/ ExtractPdfNode
    \/ ProcessWithLlmNode
    \/ ValidateOutputNode
    \/ ProcessResumeReturn
    \/ GraphReturn

SpecPipeline == PipelineInit /\ [][PipelineNext]_vars

(***************************************************************************)
(* Properties of the extraction pipeline.                                  *)
(***************************************************************************)
ViaProcessResume == entry = "process_resume"

Stages == <<"extract_pdf", "process_with_llm", "validate_output">>

SuccessStatuses == <<"initialized", "pdf_extracted", "llm_processed", "completed">>

IsPrefix(s, t) == Len(s) <= Len(t) /\ s = SubSeq(t, 1, Len(s))

\* The model answered this run's invocation with a Portfolio.
ModelGavePortfolio ==
    /\ llmLog # <<>>
    /\ ~llmLog[1].answer.raises
    /\ llmLog[1].answer.value # None

\* C1: when a process_resume run fails in the pipeline, the error it reports
\* carries the message of the first stage that failed in that run.
C1_FirstErrorReported ==
    (ViaProcessResume /\ pc = "done" /\ errorLog # <<>>)
        => /\ outcome.kind = "raised"
           /\ outcome.detail = <<"Resume processing failed: ">> \o errorLog[1]

\* C2: error is terminal: once a stage has recorded status "error", every later
\* status recorded in the same graph run is "error" as well.
C2_ErrorIsTerminal ==
    \A i \in 1..Len(statusLog) :
        statusLog[i] = "error" => \A j \in i..Len(statusLog) : statusLog[j] = "error"

\* C3: if text extraction yields the empty string, process_resume runs no
\* stage, calls neither the link extractor nor the model, and fails with the
\* empty-document error.
C3_EmptyTextFails ==
    (ViaProcessResume /\ extract_text(doc) = <<>>)
        => /\ ran = <<>>
           /\ linkCalls = <<>>
           /\ llmLog = <<>>
           /\ pc # "graph"
           /\ pc = "done" =>
                  /\ outcome.kind = "raised"
                  /\ outcome.detail = <<"Resume processing failed: ",
                                        "Could not extract text from PDF">>

C3_Witness ==
    /\ ViaProcessResume
    /\ pc = "done"
    /\ doc.pypdf_ok
    /\ Len(doc.pages) = 2
    /\ extract_text(doc) = <<>>
    /\ outcome.kind = "raised"

\* C4: when the link extractor returned a non-empty list L and the model
\* answered with a Portfolio, process_resume returns a Portfolio whose
\* pdfLinks is exactly L, whatever pdfLinks the model produced.
C4_NonEmptyLinksOverride ==
    (ViaProcessResume /\ pc = "done" /\ ModelGavePortfolio
       /\ linkCalls # <<>> /\ linkCalls[1] # <<>>)
        => /\ outcome.kind = "returned"
           /\ outcome.value[1].pdfLinks = Some(linkCalls[1])

C4_Witness ==
    /\ ViaProcessResume
    /\ pc = "done"
    /\ linkCalls = << <<"u2", "u1">> >>
    /\ ModelGavePortfolio
    /\ llmLog[1].answer.value[1].pdfLinks = Some(<<"m1">>)
    /\ outcome.kind = "returned"
    /\ outcome.value[1].pdfLinks = Some(<<"u2", "u1">>)

\* C5 (as claimed): a returned Portfolio's pdfLinks, when present, is exactly
\* the list the link extractor produced, never a list generated by the model.
C5_PdfLinksOnlyFromExtractor ==
    (ViaProcessResume /\ outcome.kind = "returned" /\ outcome.value[1].pdfLinks # None)
        => /\ linkCalls # <<>>
           /\ outcome.value[1].pdfLinks = Some(linkCalls[1])

\* C5 (amended): a returned Portfolio's pdfLinks is the extractor's list when
\* that list is non-empty, and otherwise exactly what the model produced for
\* pdfLinks (null, empty or model-generated).
C5_PdfLinksExtractorOrModel ==
    (ViaProcessResume /\ outcome.kind = "returned")
        => /\ Len(linkCalls) = 1
           /\ ModelGavePortfolio
           /\ outcome.value[1].pdfLinks =
                  IF linkCalls[1] # <<>> THEN Some(linkCalls[1])
                  ELSE llmLog[1].answer.value[1].pdfLinks

C5_Witness ==
    /\ ViaProcessResume
    /\ pc = "done"
    /\ linkCalls = << <<>> >>
    /\ outcome.kind = "returned"
    /\ outcome.value[1].pdfLinks = Some(<<"m1">>)

\* C6: process_resume returns a Portfolio only for a run whose three stages
\* all succeeded, ending with status "completed" and a non-null result, which
\* is the Portfolio returned; a run in which a stage set status "error" or
\* whose result is null ends with an error raised and nothing returned.
C6_ReturnsOnlyCompleted ==
    /\ (ViaProcessResume /\ outcome.kind = "returned")
          => /\ outcome.value # None
             /\ outcome.value = state.extracted_data
             /\ state.status = "completed"
             /\ statusLog = SuccessStatuses
             /\ ran = Stages
             /\ errorLog = <<>>
             /\ state.error = None
             /\ ModelGavePortfolio
    /\ (ViaProcessResume /\ pc = "done"
           /\ (errorLog # <<>> \/ state.status # "completed" \/ state.extracted_data = None))
          => /\ outcome.kind = "raised"
             /\ outcome.value = None

\* a Portfolio returned although the link extractor could not open the document
C6_Witness ==
    /\ ViaProcessResume
    /\ pc = "done"
    /\ ~doc.fitz_ok
    /\ linkCalls = << <<>> >>
    /\ outcome.kind = "returned"
    /\ state.status = "completed"

\* C7: within one process_resume call the stages run in the order extract_pdf,
\* process_with_llm, validate_output, each at most once, each after the previous
\* stage's update was recorded; a successful run's status goes through
\* initialized, pdf_extracted, llm_processed, completed; and the model is
\* invoked only once the link list is stored in the state.
C7_StagesInOrder ==
    ViaProcessResume
        => /\ IsPrefix(ran, Stages)
           /\ pc = "graph" => (Len(statusLog) = Len(ran) + 1
                                /\ statusLog[Len(statusLog)] = state.status
                                /\ node = (Stages \o <<"END">>)[Len(ran) + 1])
           /\ outcome.kind = "returned" => statusLog = SuccessStatuses
           /\ Len(llmLog) <= 1
           /\ llmLog # <<>> =>
                  /\ IsPrefix(<<"extract_pdf", "process_with_llm">>, ran)
                  /\ Len(linkCalls) = 1
                  /\ llmLog[1].pdf_links = Some(linkCalls[1])

C7_Witness ==
    /\ ViaProcessResume
    /\ pc = "done"
    /\ ran = Stages
    /\ statusLog = SuccessStatuses
    /\ Len(llmLog) = 1
    /\ llmLog[1].pdf_links = Some(<<"u1">>)

(***************************************************************************)
(* The archive merger.                                                     *)
(*                                                                         *)
(* A template archive is the sequence of its entries (ZipFile.infolist()): *)
(* file name, content, and what reading the entry does: "ok", "badzip"     *)
(* (zipfile.BadZipFile: a CRC or header mismatch) or "error" (any other    *)
(* exception, e.g. zlib.error on a damaged deflate stream).  The output    *)
(* archive is the sequence of the entries written to it: ZipFile.writestr  *)
(* appends an entry and never replaces one of the same name.               *)
(***************************************************************************)
SLASH == "/"

DataJson == <<"d", "a", "t", "a", ".", "j", "s", "o", "n">>

FileNames ==
    { <<"r", "/", "x">>,
      <<"r", "/", "r", "/", "x">>,
      <<"r", "/">> \o DataJson,
      <<"x">>,
      DataJson,
      <<"s", "/", "x">>,
      <<"r", "/">> }

\* str.startswith, str.find and str.replace(old, '', 1) on character sequences
StartsWith(s, p) == Len(p) <= Len(s) /\ SubSeq(s, 1, Len(p)) = p

Find(s, sub) ==
    LET hits == { i \in 1..(Len(s) + 1) :
                    i + Len(sub) - 1 <= Len(s) /\ SubSeq(s, i, i + Len(sub) - 1) = sub }
    IN  IF hits = {} THEN 0 ELSE CHOOSE i \in hits : \A j \in hits : i <= j

ReplaceFirst(s, old) ==
    LET i == Find(s, old)
    IN  IF i = 0 THEN s ELSE SubSeq(s, 1, i - 1) \o SubSeq(s, i + Len(old), Len(s))

\* str.split('/')
RECURSIVE Split(_)
Split(s) ==
    LET i == Find(s, <<SLASH>>)
    IN  IF i = 0 THEN <<s>>
        ELSE <<SubSeq(s, 1, i - 1)>> \o Split(SubSeq(s, i + 1, Len(s)))

\* ZipInfo.is_dir()
is_dir(filename) == filename # <<>> /\ filename[Len(filename)] = SLASH

ReadKinds == {"ok", "badzip", "error"}

Content(i) == [j \in 1..i |-> "b"]

FileChoices ==
    { c \in [filename : FileNames, read : ReadKinds] : is_dir(c.filename) => c.read = "ok" }

Templates ==
    UNION { { [i \in 1..n |-> [filename |-> f[i].filename, read |-> f[i].read,
                               content |-> Content(i)]] : f \in [1..n -> FileChoices] }
            : n \in 0..MaxEntries }

(***************************************************************************)
(* The template download.                                                  *)
(***************************************************************************)
ErrorStatuses == {"401", "403", "404", "500"}

AcceptedContentTypes == {"application/zip", "application/octet-stream"}

OkRemote ==
    [exc |-> "none", status |-> "200", content_type |-> "application/zip", is_zip |-> TRUE]

Remotes ==
    { OkRemote,
      [OkRemote EXCEPT !.content_type = "application/octet-stream"],
      [OkRemote EXCEPT !.is_zip = FALSE],
      [OkRemote EXCEPT !.content_type = "text/html", !.is_zip = FALSE],
      [OkRemote EXCEPT !.exc = "timeout", !.is_zip = FALSE],
      [OkRemote EXCEPT !.exc = "connection", !.is_zip = FALSE] }
    \cup { [OkRemote EXCEPT !.status = st, !.content_type = "application/json",
                            !.is_zip = FALSE] : st \in ErrorStatuses }

Raise(msg) == [raises |-> TRUE, msg |-> msg]

NoRaise == [raises |-> FALSE, msg |-> <<>>]

\* str(e) of the RequestException raised for this answer
StrOfRequestException(r) ==
    IF r.exc = "connection" THEN <<"Connection refused">>
    ELSE <<r.status, " Error for url">>

\* requests.Response.__bool__ is Response.ok: False for a 4xx or 5xx status
ResponseBool(r) == r.status \notin ErrorStatuses

\* status_code = e.response.status_code if e.response else 'N/A'
ExcStatusCode(r) ==
    IF r.exc = "none" /\ ResponseBool(r) THEN r.status ELSE "N/A"

ErrorDetail(r) ==
    LET status_code == ExcStatusCode(r)
    IN  IF status_code = "403"
        THEN <<"Access forbidden. Check your GitHub token permissions.">>
        ELSE IF status_code = "404"
        THEN <<"Repository or branch not found: ", "owner/repo:branch">>
        ELSE IF status_code = "401"
        THEN <<"Authentication failed. Check your GitHub token.">>
        ELSE <<"HTTP ", status_code, ": ">> \o StrOfRequestException(r)

\* _get_template_zip
get_template_zip(r) ==
    IF r.exc = "timeout" THEN Raise(<<"GitHub API request timed out">>)
    ELSE IF r.exc = "connection" \/ r.status \in ErrorStatuses
    THEN Raise(<<"Could not retrieve portfolio template from GitHub. ">> \o ErrorDetail(r))
    ELSE IF r.content_type \notin AcceptedContentTypes
    THEN Raise(<<"Expected zip file but got content-type: ", r.content_type>>)
    ELSE NoRaise

(***************************************************************************)
(* generate_zip                                                            *)
(***************************************************************************)
ZipPortfolios == { [fields |-> "jane", pdfLinks |-> l] : l \in {None, Some(<<"u1">>)} }

\* Portfolio.model_dump_json(indent=4): the fields in declaration order
model_dump_json(p) ==
    <<"{", "fields", ":", p.fields, ",", "pdfLinks", ":">>
    \o (IF p.pdfLinks = None THEN <<"null">> ELSE <<"[">> \o p.pdfLinks[1] \o <<"]">>)
    \o <<"}">>

\* raise Exception(f"Portfolio generation failed: {str(e)}")
ZipRaised(e) ==
    [kind |-> "raised", exc_type |-> "Exception", archive |-> <<>>,
     detail |-> <<"Portfolio generation failed: ">> \o e]

ZipReturned(entries) ==
    [kind |-> "returned", exc_type |-> "none", archive |-> entries, detail |-> <<>>]

\* No process_resume invocation is under way.
PipelineIdle ==
    /\ doc = [nonempty |-> FALSE, pypdf_ok |-> FALSE, fitz_ok |-> FALSE, pages |-> <<>>]
    /\ entry = "none"
    /\ pc = "idle"
    /\ node = "none"
    /\ state = NoState
    /\ ran = <<>>
    /\ statusLog = <<>>
    /\ errorLog = <<>>
    /\ linkCalls = <<>>
    /\ llmLog = <<>>
    /\ outcome = NoOutcome

ZipInit ==
    /\ remote \in Remotes
    /\ template \in Templates
    /\ (~remote.is_zip \/ remote # OkRemote) => template = <<>>
    /\ portfolio_data \in ZipPortfolios
    /\ zpc = "call"
    /\ item = 0
    /\ root_dir = None
    /\ output_zip = <<>>
    /\ files_copied = 0
    /\ skipped = <<>>
    /\ testzip_result = None
    /\ zoutcome = NoZipOutcome
    /\ PipelineIdle

\* generate_zip, step 1: template_zip_bytes = self._get_template_zip()
GetTemplateZip ==
    /\ zpc = "call"
    /\ LET r == get_template_zip(remote) IN
         IF r.raises
         THEN /\ zoutcome' = ZipRaised(r.msg)
              /\ zpc' = "done"
         ELSE /\ zpc' = "fetched"
              /\ UNCHANGED zoutcome
    /\ UNCHANGED <<remote, template, portfolio_data, item, root_dir, output_zip,
                   files_copied, skipped, testzip_result>>
    /\ UNCHANGED pvars

\* ZipFile.getinfo(name), which ZipFile.read(name) and ZipFile.open(name) go
\* through: a name resolves to the last entry of the archive that has it.
getinfo(entries, name) ==
    entries[CHOOSE i \in DOMAIN entries :
                /\ entries[i].filename = name
                /\ \A j \in DOMAIN entries : entries[j].filename = name => j <= i]

\* the loop of ZipFile.testzip() over the entries still to test: each is opened
\* by its name, so what is read is getinfo's entry
RECURSIVE testzipLoop(_, _)
testzipLoop(rest, entries) ==
    IF rest = <<>> THEN [raises |-> FALSE, msg |-> <<>>, result |-> None]
    ELSE IF getinfo(entries, Head(rest).filename).read = "badzip"
    THEN [raises |-> FALSE, msg |-> <<>>, result |-> Some(Head(rest).filename)]
    ELSE IF getinfo(entries, Head(rest).filename).read = "error"
    THEN [raises |-> TRUE, msg |-> <<"Error -3 while decompressing data">>, result |-> None]
    ELSE testzipLoop(Tail(rest), entries)

\* ZipFile.testzip(): reads the entries in order, each by its name; returns the
\* name of the first entry whose read raises BadZipFile, None when every entry
\* reads, and lets any other exception out.
testzip(entries) == testzipLoop(entries, entries)

\* the first path components (with '/') of the entries that have more than one
RECURSIVE FirstComponents(_)
FirstComponents(entries) ==
    IF entries = <<>> THEN <<>>
    ELSE LET f == Head(entries).filename
             parts == Split(f)
         IN  (IF ~is_dir(f) /\ Len(parts) > 1 THEN <<parts[1] \o <<SLASH>>>> ELSE <<>>)
             \o FirstComponents(Tail(entries))

\* Counter(xs).most_common(1)[0][0]: the most frequent element, the first seen
\* among those of the highest count
MostCommon(xs) ==
    LET count(x) == Cardinality({ i \in DOMAIN xs : xs[i] = x })
        best == CHOOSE i \in DOMAIN xs :
                    /\ \A j \in DOMAIN xs : count(xs[j]) <= count(xs[i])
                    /\ \A j \in 1..(i - 1) : count(xs[j]) < count(xs[i])
    IN  xs[best]

\* _find_root_directory
find_root_directory(entries) ==
    LET first_components == FirstComponents(entries)
    IN  IF first_components = <<>> THEN None ELSE Some(MostCommon(first_components))

\* generate_zip, step 2: the template opened as a ZipFile, testzip(), the output
\* archive created and the root directory found
OpenTemplate ==
    /\ zpc = "fetched"
    /\ IF ~remote.is_zip
       THEN /\ zoutcome' = ZipRaised(<<"File is not a zip file">>)
            /\ zpc' = "done"
            /\ UNCHANGED <<item, root_dir, testzip_result>>
       ELSE LET t == testzip(template) IN
            IF t.raises
            THEN /\ zoutcome' = ZipRaised(t.msg)
                 /\ zpc' = "done"
                 /\ UNCHANGED <<item, root_dir, testzip_result>>
            ELSE /\ testzip_result' = t.result
                 /\ root_dir' = find_root_directory(template)
                 /\ item' = 1
                 /\ zpc' = "copying"
                 /\ UNCHANGED zoutcome
    /\ UNCHANGED <<remote, template, portfolio_data, output_zip, files_copied, skipped>>
    /\ UNCHANGED pvars

\* the output path of a template entry
new_path(filename, root) ==
    IF root # None /\ root[1] # <<>> /\ StartsWith(filename, root[1])
    THEN ReplaceFirst(filename, root[1])
    ELSE filename

\* generate_zip, step 3: one iteration of the copy loop; the entry is read by
\* its name (template_zip.read(item.filename))
CopyEntry ==
    /\ zpc = "copying"
    /\ item <= Len(template)
    /\ LET name == template[item].filename
           e == getinfo(template, name)
       IN
         IF is_dir(name)
         THEN UNCHANGED <<output_zip, files_copied, skipped>>
         ELSE IF e.read # "ok"
         THEN /\ skipped' = Append(skipped, name)
              /\ UNCHANGED <<output_zip, files_copied>>
         ELSE IF new_path(name, root_dir) # <<>>
         THEN /\ output_zip' = Append(output_zip,
                                      [filename |-> new_path(name, root_dir),
                                       content |-> e.content])
              /\ files_copied' = files_copied + 1
              /\ UNCHANGED skipped
         ELSE UNCHANGED <<output_zip, files_copied, skipped>>
    /\ item' = item + 1
    /\ UNCHANGED <<remote, template, portfolio_data, zpc, root_dir, testzip_result, zoutcome>>
    /\ UNCHANGED pvars

\* generate_zip, steps 4 and 5: the files_copied check, data.json, the return
FinishZip ==
    /\ zpc = "copying"
    /\ item > Len(template)
    /\ IF files_copied = 0
       THEN /\ zoutcome' = ZipRaised(<<"No files were copied from the template repository">>)
            /\ UNCHANGED output_zip
       ELSE /\ output_zip' = Append(output_zip,
                                    [filename |-> DataJson,
                                     content |-> model_dump_json(portfolio_data)])
            /\ zoutcome' = ZipReturned(output_zip')
    /\ zpc' = "done"
    /\ UNCHANGED <<remote, template, portfolio_data, item, root_dir, files_copied,
                   skipped, testzip_result>>
    /\ UNCHANGED pvars

ZipNext ==
    \/ GetTemplateZip
    \/ OpenTemplate
    \/ CopyEntry
    \/ FinishZip

SpecZip == ZipInit /\ [][ZipNext]_vars

(***************************************************************************)
(* Properties of the archive merger.                                       *)
(***************************************************************************)
FileEntries(entries) == { i \in DOMAIN entries : ~is_dir(entries[i].filename) }

\* what reading entry i of the archive by its name gives
ReadOf(entries, i) == getinfo(entries, entries[i].filename).read

Readable(entries) == { i \in FileEntries(entries) : ReadOf(entries, i) = "ok" }

Unreadable(entries) == { i \in FileEntries(entries) : ReadOf(entries, i) # "ok" }

\* The download succeeded and the body is a zip archive.
TemplateFetched == ~get_template_zip(remote).raises /\ remote.is_zip

DataJsonEntry == [filename |-> DataJson, content |-> model_dump_json(portfolio_data)]

NamedDataJson(archive) == { i \in DOMAIN archive : archive[i].filename = DataJson }

\* C8: a returned archive has one entry at data.json, holding the serialization
\* of the given portfolio; a template entry whose output path is data.json does
\* not remain beside it.
C8_DataJsonOverwritesTemplate ==
    zoutcome.kind = "returned"
        => /\ \E i \in NamedDataJson(zoutcome.archive) : zoutcome.archive[i] = DataJsonEntry
           /\ \A i \in NamedDataJson(zoutcome.archive) : zoutcome.archive[i] = DataJsonEntry

HasSlash(f) == \E i \in DOMAIN f : f[i] = SLASH

\* every file entry lies under the directory named by the characters R
AllUnder(entries, R) ==
    /\ FileEntries(entries) # {}
    /\ R # <<>>
    /\ ~HasSlash(R)
    /\ \A i \in FileEntries(entries) : StartsWith(entries[i].filename, R \o <<SLASH>>)

TopLevelOnly(entries) ==
    /\ FileEntries(entries) # {}
    /\ \A i \in FileEntries(entries) : ~HasSlash(entries[i].filename)

\* the first n entries of the archive that are files and read, in order, each
\* without the first k characters of its path and with its own bytes
RECURSIVE CopiesWithout(_, _, _)
CopiesWithout(entries, n, k) ==
    IF n = 0 THEN <<>>
    ELSE CopiesWithout(entries, n - 1, k)
         \o (IF n \in Readable(entries)
             THEN <<[filename |-> SubSeq(entries[n].filename, k + 1, Len(entries[n].filename)),
                     content |-> entries[n].content]>>
             ELSE <<>>)

RootNames == { <<"r">>, <<"s">>, <<"x">>, DataJson }

\* C9: for a template whose file entries all lie under one root R/, each copied
\* entry is written under its path without the leading R/ (removed once, as a
\* prefix), bytes unchanged; for a template whose file entries are all at the
\* top level no root is detected and each entry keeps its path.
\* An entry is copied when reading it by its name succeeds; its bytes are its
\* own content.
C9_RootStrippedOnce ==
    /\ \A R \in RootNames :
         (zpc \in {"copying", "done"} /\ item > 0 /\ AllUnder(template, R))
            => /\ root_dir = Some(R \o <<SLASH>>)
               /\ IF zoutcome.kind = "returned"
                  THEN zoutcome.archive =
                           CopiesWithout(template, Len(template), Len(R) + 1) \o <<DataJsonEntry>>
                  ELSE output_zip =
                           CopiesWithout(template, item - 1, Len(R) + 1)
    /\ (zpc \in {"copying", "done"} /\ item > 0 /\ TopLevelOnly(template))
          => /\ root_dir = None
             /\ IF zoutcome.kind = "returned"
                THEN zoutcome.archive = CopiesWithout(template, Len(template), 0) \o <<DataJsonEntry>>
                ELSE output_zip = CopiesWithout(template, item - 1, 0)

\* The statement of C9 for the templates whose entries have pairwise distinct
\* paths, where reading an entry by its name reads that entry.
RootStrippedOnceDistinctPaths ==
    (\A i, j \in DOMAIN template : i # j => template[i].filename # template[j].filename)
        => C9_RootStrippedOnce

\* a run of that restricted statement: r/r/x written as r/x, the root removed once
C9_Witness ==
    /\ zoutcome.kind = "returned"
    /\ AllUnder(template, <<"r">>)
    /\ Len(template) = 2
    /\ template[1].filename = <<"r", "/", "r", "/", "x">>
    /\ zoutcome.archive[1] = [filename |-> <<"r", "/", "x">>, content |-> Content(1)]
    /\ Len(zoutcome.archive) = 3

\* C10: a fetched template with one entry that fails to read and N >= 1 entries
\* that read correctly yields an archive holding the N readable entries and
\* data.json.
C10_ToleratesUnreadableEntry ==
    (zpc = "done" /\ TemplateFetched
       /\ Cardinality(Unreadable(template)) = 1
       /\ Cardinality(Readable(template)) >= 1)
        => /\ zoutcome.kind = "returned"
           /\ zoutcome.archive =
                  [i \in 1..Len(CopiesWithout(template, Len(template), 0)) |->
                      [filename |-> new_path(CopiesWithout(template, Len(template), 0)[i].filename, root_dir),
                       content |-> CopiesWithout(template, Len(template), 0)[i].content]]
                  \o <<DataJsonEntry>>

\* The download is answered with a timeout, a connection failure, a non-2xx
\* status or a content type that is no archive.
DownloadFails ==
    \/ remote.exc \in {"timeout", "connection"}
    \/ remote.status # "200"
    \/ remote.content_type \notin {"application/zip", "application/octet-stream"}

\* the message texts generate_zip's error starts with after a failed download
FetchMessages ==
    { "GitHub API request timed out",
      "Could not retrieve portfolio template from GitHub. ",
      "Expected zip file but got content-type: " }

\* C11: a failed download makes generate_zip fail with an error of a
\* template-fetch kind of its own, never with a generic error.
C11_FetchErrorKind ==
    (zpc = "done" /\ DownloadFails)
        => /\ zoutcome.kind = "raised"
           /\ zoutcome.exc_type = "TemplateFetchError"

\* What generate_zip does on a failed download: it fails, returning no archive,
\* with a plain Exception whose message is "Portfolio generation failed: "
\* followed by a download-specific text; that text starts no error of a call
\* whose download succeeded (invalid archive, unreadable entries, empty
\* template), so the failures differ by message only.
FetchErrorMessage ==
    /\ (zpc = "done" /\ DownloadFails)
          => /\ zoutcome.kind = "raised"
             /\ zoutcome.exc_type = "Exception"
             /\ zoutcome.archive = <<>>
             /\ output_zip = <<>>
             /\ Len(zoutcome.detail) >= 2
             /\ zoutcome.detail[1] = "Portfolio generation failed: "
             /\ zoutcome.detail[2] \in FetchMessages
    /\ (zpc = "done" /\ ~DownloadFails /\ zoutcome.kind = "raised")
          => /\ zoutcome.exc_type = "Exception"
             /\ Len(zoutcome.detail) >= 2
             /\ zoutcome.detail[1] = "Portfolio generation failed: "
             /\ zoutcome.detail[2] \notin FetchMessages

\* a 404 answer ending in the generic Exception
FetchErrorRaised ==
    /\ zpc = "done"
    /\ remote.exc = "none"
    /\ remote.status = "404"
    /\ zoutcome.kind = "raised"
    /\ zoutcome.detail[2] = "Could not retrieve portfolio template from GitHub. "

\* the file entries whose integrity check fails (a CRC or header mismatch)
Corrupt(entries) == { i \in FileEntries(entries) : ReadOf(entries, i) = "badzip" }

\* C12: a downloaded archive with an entry that fails the integrity check (and
\* no entry unreadable for another reason) makes generate_zip fail with the
\* invalid-archive error, before any entry is copied and with no archive returned.
C12_CorruptArchiveRejected ==
    (TemplateFetched /\ Corrupt(template) # {} /\ Unreadable(template) = Corrupt(template)
       /\ zpc \in {"copying", "done"})
        => /\ output_zip = <<>>
           /\ files_copied = 0
           /\ zoutcome.kind # "returned"
           /\ zpc = "done" =>
                  /\ zoutcome.kind = "raised"
                  /\ zoutcome.detail = <<"Portfolio generation failed: ",
                                         "Downloaded template is not a valid zip file">>

PairwiseDistinct(names) ==
    \A i, j \in DOMAIN names : i # j => names[i] # names[j]

EndsWith(s, t) == Len(t) <= Len(s) /\ SubSeq(s, Len(s) - Len(t) + 1, Len(s)) = t

\* C13: for a template whose file entries have pairwise distinct paths, the
\* entries written to the output archive (the copied entries and data.json)
\* have pairwise distinct paths, and they are the returned archive.  Stated
\* for the templates none of whose entries is named data.json, so that no
\* collision with the generated data.json entry is involved.
C13_NoOutputPathCollision ==
    (/\ \A i, j \in FileEntries(template) : i # j => template[i].filename # template[j].filename
     /\ \A i \in FileEntries(template) : ~EndsWith(template[i].filename, DataJson))
        => /\ PairwiseDistinct([i \in DOMAIN output_zip |-> output_zip[i].filename])
           /\ zoutcome.kind = "returned" => zoutcome.archive = output_zip

\* the detail _get_template_zip is meant to give for an HTTP error status
StatusDetail(status) ==
    CASE status = "401" -> <<"Authentication failed. Check your GitHub token.">>
      [] status = "403" -> <<"Access forbidden. Check your GitHub token permissions.">>
      [] status = "404" -> <<"Repository or branch not found: ", "owner/repo:branch">>

\* C14: a download answered with status 401, 403 or 404 fails with the detail
\* specific to that status, not with the generic "HTTP <status>: ..." detail.
C14_StatusSpecificDetail ==
    (zpc = "done" /\ remote.exc = "none" /\ remote.status \in {"401", "403", "404"})
        => /\ zoutcome.kind = "raised"
           /\ zoutcome.detail =
                  <<"Portfolio generation failed: ",
                    "Could not retrieve portfolio template from GitHub. ">>
                  \o StatusDetail(remote.status)

=============================================================================
